---- MODULE Spec2Model ----
(***************************************************************************)
(* A model of lambda-patterns' Handler (src/src/Handler.js, lines 1-353):  *)
(* the constructor, the promise chain of invoke(), the four stages init,   *)
(* process, cleanup and respond, the profiling helpers, the default        *)
(* shouldProfile policy and the module-level state they share.             *)
(***************************************************************************)
EXTENDS Integers, Sequences, FiniteSets, TLC

\* Bounds of the model.
MaxInvocations == 3
MaxDecisions == 8
NumResults == 2

\* Program constant: defaultOptions.profilePercentage.
DefaultProfilePercentage == 10

\* One invocation at a time: the instance in use.
Slots == {1}

\* Invocations of one environment that interleave on the event loop.
Interleaved == {1, 2}

VARIABLES
    isColdStart,          \* module-level `let isColdStart`
    coldStartPercentage,  \* module-level PercentageIncrementor
    profilePercentage,    \* module-level PercentageIncrementor
    profiler,             \* static Handler.profiler is loaded
    zlib,                 \* static Handler.zlib is loaded
    createOptions,        \* the options given to Handler.create
    lastConstruct,        \* what the latest `new Handler(...)` was given and did
    constructed,          \* how many instances have been constructed
    decided,              \* how many inits have decided, how many for profiling
    handler               \* the Handler instances, one per slot

vars == <<isColdStart, coldStartPercentage, profilePercentage, profiler, zlib,
          createOptions, lastConstruct, constructed, decided,
          handler>>

(***************************************************************************)
(* Values that travel through the promise chain and to the callback.       *)
(***************************************************************************)
Null == [src |-> "null", n |-> 0]
Undefined == [src |-> "undefined", n |-> 0]
Result(r) == [src |-> "result", n |-> r]
Error(src, k) == [src |-> src, n |-> k]

IsResult(v) == v.src = "result"
IsError(v) == v.src \notin {"null", "undefined", "result"}

Bool(b) == [src |-> "boolean", n |-> IF b THEN 1 ELSE 0]

Event(op, err, res) == [op |-> op, err |-> err, res |-> res]
Call(op) == Event(op, Undefined, Undefined)

(***************************************************************************)
(* PercentageIncrementor, as Handler.js uses it.                           *)
(***************************************************************************)
NewIncrementor == [total |-> 0, subset |-> 0]

increment(p, value) ==
    [total |-> p.total + 1, subset |-> p.subset + (IF value THEN 1 ELSE 0)]

\* valueOf() * 100 < target, with valueOf() = 0 when nothing is recorded.
\* Mutant: the comparison with the target is the other way round.
PercentLessThan_Reversed(p, target) ==
    IF p.total = 0 THEN 0 > target ELSE p.subset * 100 > target * p.total

\* Mutant: the comparison with the target is not strict.
PercentLessThan_NotStrict(p, target) ==
    IF p.total = 0 THEN 0 <= target ELSE p.subset * 100 <= target * p.total

PercentLessThan(p, target) ==
    IF p.total = 0 THEN 0 < target ELSE p.subset * 100 < target * p.total

(***************************************************************************)
(* Options.                                                                *)
(***************************************************************************)
Strategies == {"ALWAYS", "ALL_COLD_STARTS", "ONE_COLD_ONE_WARM", "PERCENTAGE",
               "NEVER", "OTHER"}
Percentages == {0, 20, 100}

defaultOptions ==
    [shouldProfile |-> "default", profileStrategy |-> "NEVER",
     profilePercentage |-> DefaultProfilePercentage, waitForEventLoop |-> TRUE]

\* The options a caller may pass, already merged over defaultOptions.
OptionChoices ==
    {o \in [shouldProfile : {"default", "custom"}, profileStrategy : Strategies,
            profilePercentage : Percentages \cup {DefaultProfilePercentage},
            waitForEventLoop : BOOLEAN] :
        /\ o.profileStrategy # "PERCENTAGE"
              => o.profilePercentage = DefaultProfilePercentage
        /\ o.profileStrategy = "PERCENTAGE"
              => o.profilePercentage # DefaultProfilePercentage
        /\ o.shouldProfile = "custom" => o.profileStrategy \in {"ALWAYS", "NEVER"}}

(***************************************************************************)
(* Handler instances.                                                      *)
(***************************************************************************)
NoHandler ==
    [pc |-> "none", ordinal |-> 0, options |-> defaultOptions,
     isColdStart |-> FALSE, totalInvocations |-> 0, profilingEnabled |-> "undefined",
     profile |-> "undefined", callbackWaitsForEmptyEventLoop |-> TRUE,
     value |-> Undefined, log |-> <<>>, calls |-> <<>>]

Terminal == {"resolved", "rejected"}
Idle == {"none"} \cup Terminal

Truthy(b) == b = "true"
ToFlag(b) == IF b THEN "true" ELSE "false"

Count(seq, op) == Cardinality({i \in DOMAIN seq : seq[i].op = op})

\* Mutant: ONE_COLD_ONE_WARM lets the third invocation through.
shouldProfile_OffByOne(self) ==
    CASE self.options.profileStrategy = "ALWAYS" -> TRUE
      [] self.options.profileStrategy = "ALL_COLD_STARTS" -> self.isColdStart
      [] self.options.profileStrategy = "ONE_COLD_ONE_WARM" ->
            self.totalInvocations <= 3
      [] self.options.profileStrategy = "PERCENTAGE" ->
            PercentLessThan(profilePercentage, self.options.profilePercentage)
      [] OTHER -> FALSE

\* Mutant: an unrecognized strategy profiles.
shouldProfile_DefaultsOn(self) ==
    CASE self.options.profileStrategy = "ALWAYS" -> TRUE
      [] self.options.profileStrategy = "ALL_COLD_STARTS" -> self.isColdStart
      [] self.options.profileStrategy = "ONE_COLD_ONE_WARM" ->
            self.totalInvocations < 3
      [] self.options.profileStrategy = "PERCENTAGE" ->
            PercentLessThan(profilePercentage, self.options.profilePercentage)
      [] OTHER -> self.options.profileStrategy # "NEVER"

\* The default shouldProfile implementation (static shouldProfile).
shouldProfile(self) ==
    CASE self.options.profileStrategy = "ALWAYS" -> TRUE
      [] self.options.profileStrategy = "ALL_COLD_STARTS" -> self.isColdStart
      [] self.options.profileStrategy = "ONE_COLD_ONE_WARM" ->
            self.totalInvocations < 3
      [] self.options.profileStrategy = "PERCENTAGE" ->
            PercentLessThan(profilePercentage, self.options.profilePercentage)
      [] OTHER -> FALSE

Init ==
    /\ isColdStart = TRUE
    /\ coldStartPercentage = NewIncrementor
    /\ profilePercentage = NewIncrementor
    /\ profiler = FALSE
    /\ zlib = FALSE
    /\ createOptions \in OptionChoices
    /\ lastConstruct = [processor |-> "none", threw |-> FALSE]
    /\ constructed = 0
    /\ decided = [ran |-> 0, enabled |-> 0]
    /\ handler = [h \in Slots |-> NoHandler]

\* Targets of the runs that follow the PERCENTAGE policy over many invocations.
Targets == {0, 1, 20, 33, 50, 99, 100}

\* Every invocation uses the default policy under PERCENTAGE with one target.
PercentageInit ==
    /\ isColdStart = TRUE
    /\ coldStartPercentage = NewIncrementor
    /\ profilePercentage = NewIncrementor
    /\ profiler = FALSE
    /\ zlib = FALSE
    /\ createOptions \in
          {[defaultOptions EXCEPT !.profileStrategy = "PERCENTAGE",
                                  !.profilePercentage = p] : p \in Targets}
    /\ lastConstruct = [processor |-> "none", threw |-> FALSE]
    /\ constructed = 0
    /\ decided = [ran |-> 0, enabled |-> 0]
    /\ handler = [h \in Slots |-> NoHandler]

\* The options of the interleaved runs: the default policy under PERCENTAGE.
InterleavedChoices ==
    {o \in OptionChoices :
        /\ o.shouldProfile = "default"
        /\ o.profileStrategy = "PERCENTAGE"
        /\ o.profilePercentage = 20
        /\ o.waitForEventLoop}

\* The functions Handler.create returned are called before the earlier
\* invocations are over.
InterleavedInit ==
    /\ isColdStart = TRUE
    /\ coldStartPercentage = NewIncrementor
    /\ profilePercentage = NewIncrementor
    /\ profiler = FALSE
    /\ zlib = FALSE
    /\ createOptions \in InterleavedChoices
    /\ lastConstruct = [processor |-> "none", threw |-> FALSE]
    /\ constructed = 0
    /\ decided = [ran |-> 0, enabled |-> 0]
    /\ handler = [h \in Interleaved |-> NoHandler]

Processors == {"function", "undefined"}

\* How many instances a run constructs: a PERCENTAGE run is long enough for
\* the tracker to come back under its target.
Limit(options) ==
    IF options.profileStrategy = "PERCENTAGE" /\ DOMAIN handler = Slots
    THEN MaxDecisions
    ELSE MaxInvocations

\* Mutant: the module-level flag is read but not flipped.
Construct_NoFlip(h) ==
    /\ handler[h].pc \in Idle
    /\ constructed < Limit(createOptions)
    /\ lastConstruct' = [processor |-> "function", threw |-> FALSE]
    /\ constructed' = constructed + 1
    /\ coldStartPercentage' = increment(coldStartPercentage, isColdStart)
    /\ handler' = [handler EXCEPT ![h] =
          [NoHandler EXCEPT !.pc = "created",
                            !.ordinal = constructed + 1,
                            !.options = createOptions,
                            !.isColdStart = isColdStart,
                            !.totalInvocations = coldStartPercentage.total + 1]]
    /\ UNCHANGED <<isColdStart, profilePercentage, profiler, zlib, createOptions,
                   decided>>

\* Mutant: totalInvocations is read before the construction is counted.
Construct_StaleTotal(h) ==
    /\ handler[h].pc \in Idle
    /\ constructed < Limit(createOptions)
    /\ lastConstruct' = [processor |-> "function", threw |-> FALSE]
    /\ constructed' = constructed + 1
    /\ isColdStart' = FALSE
    /\ coldStartPercentage' = increment(coldStartPercentage, isColdStart)
    /\ handler' = [handler EXCEPT ![h] =
          [NoHandler EXCEPT !.pc = "created",
                            !.ordinal = constructed + 1,
                            !.options = createOptions,
                            !.isColdStart = isColdStart,
                            !.totalInvocations = coldStartPercentage.total]]
    /\ UNCHANGED <<profilePercentage, profiler, zlib, createOptions, decided>>

\* Mutant: a processor that is not a function is only found out when it is
\* called.
Construct_Deferred(h) ==
    /\ handler[h].pc \in Idle
    /\ constructed < Limit(createOptions)
    /\ \E processor \in Processors :
         /\ lastConstruct' = [processor |-> processor, threw |-> FALSE]
         /\ constructed' = constructed + 1
         /\ isColdStart' = FALSE
         /\ coldStartPercentage' = increment(coldStartPercentage, isColdStart)
         /\ handler' = [handler EXCEPT ![h] =
                    [NoHandler EXCEPT !.pc = "created",
                                      !.ordinal = constructed + 1,
                                      !.options = createOptions,
                                      !.isColdStart = isColdStart,
                                      !.totalInvocations =
                                          coldStartPercentage.total + 1]]
    /\ UNCHANGED <<profilePercentage, profiler, zlib, createOptions, decided>>

\* Mutant: the flag is flipped only when the cold invocation is over, so an
\* instance constructed meanwhile reads it as still set.
Construct_LateFlip(h) ==
    /\ handler[h].pc \in Idle
    /\ constructed < Limit(createOptions)
    /\ \E processor \in Processors :
         IF processor # "function"
         THEN /\ lastConstruct' = [processor |-> processor, threw |-> TRUE]
              /\ UNCHANGED <<isColdStart, coldStartPercentage, constructed, handler>>
         ELSE /\ lastConstruct' = [processor |-> processor, threw |-> FALSE]
              /\ constructed' = constructed + 1
              /\ isColdStart' = (\E g \in DOMAIN handler \ {h} :
                                    ~(handler[g].pc \in Idle))
              /\ coldStartPercentage' = increment(coldStartPercentage, isColdStart)
              /\ handler' = [handler EXCEPT ![h] =
                    [NoHandler EXCEPT !.pc = "created",
                                      !.ordinal = constructed + 1,
                                      !.options = createOptions,
                                      !.isColdStart = isColdStart,
                                      !.totalInvocations =
                                          coldStartPercentage.total + 1]]
    /\ UNCHANGED <<profilePercentage, profiler, zlib, createOptions, decided>>

\* Mutant: the instance does not keep what it read from the flag.
Construct_NoCapture(h) ==
    /\ handler[h].pc \in Idle
    /\ constructed < Limit(createOptions)
    /\ \E processor \in Processors :
         IF processor # "function"
         THEN /\ lastConstruct' = [processor |-> processor, threw |-> TRUE]
              /\ UNCHANGED <<isColdStart, coldStartPercentage, constructed, handler>>
         ELSE /\ lastConstruct' = [processor |-> processor, threw |-> FALSE]
              /\ constructed' = constructed + 1
              /\ isColdStart' = FALSE
              /\ coldStartPercentage' = increment(coldStartPercentage, isColdStart)
              /\ handler' = [handler EXCEPT ![h] =
                    [NoHandler EXCEPT !.pc = "created",
                                      !.ordinal = constructed + 1,
                                      !.options = createOptions,
                                      !.isColdStart = FALSE,
                                      !.totalInvocations =
                                          coldStartPercentage.total + 1]]
    /\ UNCHANGED <<profilePercentage, profiler, zlib, createOptions, decided>>

\* Mutant: the cold-start bookkeeping comes before the check of the processor.
Construct_CountsFailures(h) ==
    /\ handler[h].pc \in Idle
    /\ constructed < Limit(createOptions)
    /\ \E processor \in Processors :
         IF processor # "function"
         THEN /\ lastConstruct' = [processor |-> processor, threw |-> TRUE]
              /\ isColdStart' = FALSE
              /\ coldStartPercentage' = increment(coldStartPercentage, isColdStart)
              /\ UNCHANGED <<constructed, handler>>
         ELSE /\ lastConstruct' = [processor |-> processor, threw |-> FALSE]
              /\ constructed' = constructed + 1
              /\ isColdStart' = FALSE
              /\ coldStartPercentage' = increment(coldStartPercentage, isColdStart)
              /\ handler' = [handler EXCEPT ![h] =
                    [NoHandler EXCEPT !.pc = "created",
                                      !.ordinal = constructed + 1,
                                      !.options = createOptions,
                                      !.isColdStart = isColdStart,
                                      !.totalInvocations =
                                          coldStartPercentage.total + 1]]
    /\ UNCHANGED <<profilePercentage, profiler, zlib, createOptions, decided>>

\* new Handler(processor, options, event, context, callback)
Construct(h) ==
    /\ handler[h].pc \in Idle
    /\ constructed < Limit(createOptions)
    /\ \E processor \in Processors :
         IF processor # "function"
         THEN /\ lastConstruct' = [processor |-> processor, threw |-> TRUE]
              /\ UNCHANGED <<isColdStart, coldStartPercentage, constructed, handler>>
         ELSE /\ lastConstruct' = [processor |-> processor, threw |-> FALSE]
              /\ constructed' = constructed + 1
              /\ isColdStart' = FALSE
              /\ coldStartPercentage' = increment(coldStartPercentage, isColdStart)
              /\ handler' = [handler EXCEPT ![h] =
                    [NoHandler EXCEPT !.pc = "created",
                                      !.ordinal = constructed + 1,
                                      !.options = createOptions,
                                      !.isColdStart = isColdStart,
                                      !.totalInvocations =
                                          coldStartPercentage.total + 1]]
    /\ UNCHANGED <<profilePercentage, profiler, zlib, createOptions, decided>>

\* The steps shared by every stage: append to the log, move the chain.
Logged(self, events) == [self EXCEPT !.log = self.log \o events]

Moved(self, to, value) == [self EXCEPT !.pc = to, !.value = value]

\* A stage throws (or its promise rejects) with err: the chain carries err.
Thrown(self, to, err) ==
    Moved(Logged(self, <<Event("throw", err, Undefined)>>), to, err)

\* The processor's value res is there: the chain carries res.
Resolved(self, to, res) ==
    Moved(Logged(self, <<Event("resolve", Undefined, res)>>), to, res)

\* invoke(): the chain is built, nothing of it has run yet.
invoke(h) ==
    /\ handler[h].pc = "created"
    /\ handler' = [handler EXCEPT ![h].pc = "init"]
    /\ UNCHANGED <<isColdStart, coldStartPercentage, profilePercentage, profiler,
                   zlib, createOptions, lastConstruct, constructed, decided>>

\* What can go wrong in init(): a caller's shouldProfile throws, loading the
\* profiler throws, the profiler's startProfiling throws.
InitFaults(self, enabled) ==
    {"none"}
      \cup (IF self.options.shouldProfile = "custom" THEN {"shouldProfile"} ELSE {})
      \cup (IF enabled /\ ~profiler THEN {"require"} ELSE {})
      \cup (IF enabled THEN {"startProfiling"} ELSE {})

Decisions(self) ==
    IF self.options.shouldProfile = "custom" THEN BOOLEAN ELSE {shouldProfile(self)}

\* Mutant: the decision is not recorded in the profiling tracker.
init_NoRecord(h, okTo, failTo) ==
    LET self == Logged(handler[h], <<Call("init")>>) IN
    \E enabled \in Decisions(self) : \E fault \in InitFaults(self, enabled) :
      IF fault = "shouldProfile"
      THEN /\ handler' = [handler EXCEPT ![h] =
                 Thrown(Logged(self, <<Call("shouldProfile")>>), failTo,
                        Error("shouldProfile", 1))]
           /\ UNCHANGED <<profilePercentage, profiler, zlib>>
      ELSE
        /\ UNCHANGED profilePercentage
        /\ profiler' = (profiler \/ (enabled /\ fault # "require"))
        /\ zlib' = (zlib \/ (enabled /\ fault # "require"))
        /\ LET asked == Logged(self,
                           <<Event("shouldProfile", Undefined, Bool(enabled))>>)
               decided_ == [asked EXCEPT !.profilingEnabled = ToFlag(enabled)]
               started == IF enabled /\ fault # "require"
                          THEN Logged(decided_, <<Call("startProfiling")>>)
                          ELSE decided_
               flagged == IF self.options.waitForEventLoop = FALSE
                          THEN [started EXCEPT
                                  !.callbackWaitsForEmptyEventLoop = FALSE]
                          ELSE started
           IN handler' = [handler EXCEPT ![h] =
                 IF fault = "none" THEN Moved(flagged, okTo, self.value)
                 ELSE Thrown(started, failTo, Error(fault, 1))]

\* Mutant: the tracker records profilingEnabled before it is assigned.
init_RecordsStale(h, okTo, failTo) ==
    LET self == Logged(handler[h], <<Call("init")>>) IN
    \E enabled \in Decisions(self) : \E fault \in InitFaults(self, enabled) :
      IF fault = "shouldProfile"
      THEN /\ handler' = [handler EXCEPT ![h] =
                 Thrown(Logged(self, <<Call("shouldProfile")>>), failTo,
                        Error("shouldProfile", 1))]
           /\ UNCHANGED <<profilePercentage, profiler, zlib>>
      ELSE
        /\ profilePercentage' =
              increment(profilePercentage, Truthy(self.profilingEnabled))
        /\ profiler' = (profiler \/ (enabled /\ fault # "require"))
        /\ zlib' = (zlib \/ (enabled /\ fault # "require"))
        /\ LET asked == Logged(self,
                           <<Event("shouldProfile", Undefined, Bool(enabled))>>)
               decided_ == [asked EXCEPT !.profilingEnabled = ToFlag(enabled)]
               started == IF enabled /\ fault # "require"
                          THEN Logged(decided_, <<Call("startProfiling")>>)
                          ELSE decided_
               flagged == IF self.options.waitForEventLoop = FALSE
                          THEN [started EXCEPT
                                  !.callbackWaitsForEmptyEventLoop = FALSE]
                          ELSE started
           IN handler' = [handler EXCEPT ![h] =
                 IF fault = "none" THEN Moved(flagged, okTo, self.value)
                 ELSE Thrown(started, failTo, Error(fault, 1))]

\* Mutant: the profiler and zlib are loaded whether or not profiling is enabled.
init_EagerRequire(h, okTo, failTo) ==
    LET self == Logged(handler[h], <<Call("init")>>) IN
    \E enabled \in Decisions(self) : \E fault \in InitFaults(self, enabled) :
      IF fault = "shouldProfile"
      THEN /\ handler' = [handler EXCEPT ![h] =
                 Thrown(Logged(self, <<Call("shouldProfile")>>), failTo,
                        Error("shouldProfile", 1))]
           /\ UNCHANGED <<profilePercentage, profiler, zlib>>
      ELSE
        /\ profilePercentage' = increment(profilePercentage, enabled)
        /\ profiler' = (profiler \/ fault # "require")
        /\ zlib' = (zlib \/ fault # "require")
        /\ LET asked == Logged(self,
                           <<Event("shouldProfile", Undefined, Bool(enabled))>>)
               decided_ == [asked EXCEPT !.profilingEnabled = ToFlag(enabled)]
               started == IF enabled /\ fault # "require"
                          THEN Logged(decided_, <<Call("startProfiling")>>)
                          ELSE decided_
               flagged == IF self.options.waitForEventLoop = FALSE
                          THEN [started EXCEPT
                                  !.callbackWaitsForEmptyEventLoop = FALSE]
                          ELSE started
           IN handler' = [handler EXCEPT ![h] =
                 IF fault = "none" THEN Moved(flagged, okTo, self.value)
                 ELSE Thrown(started, failTo, Error(fault, 1))]

\* Mutant: the context flag is cleared whatever waitForEventLoop says.
init_AlwaysFlags(h, okTo, failTo) ==
    LET self == Logged(handler[h], <<Call("init")>>) IN
    \E enabled \in Decisions(self) : \E fault \in InitFaults(self, enabled) :
      IF fault = "shouldProfile"
      THEN /\ handler' = [handler EXCEPT ![h] =
                 Thrown(Logged(self, <<Call("shouldProfile")>>), failTo,
                        Error("shouldProfile", 1))]
           /\ UNCHANGED <<profilePercentage, profiler, zlib>>
      ELSE
        /\ profilePercentage' = increment(profilePercentage, enabled)
        /\ profiler' = (profiler \/ (enabled /\ fault # "require"))
        /\ zlib' = (zlib \/ (enabled /\ fault # "require"))
        /\ LET asked == Logged(self,
                           <<Event("shouldProfile", Undefined, Bool(enabled))>>)
               decided_ == [asked EXCEPT !.profilingEnabled = ToFlag(enabled)]
               started == IF enabled /\ fault # "require"
                          THEN Logged(decided_, <<Call("startProfiling")>>)
                          ELSE decided_
               flagged == IF self.options.waitForEventLoop \in BOOLEAN
                          THEN [started EXCEPT
                                  !.callbackWaitsForEmptyEventLoop = FALSE]
                          ELSE started
           IN handler' = [handler EXCEPT ![h] =
                 IF fault = "none" THEN Moved(flagged, okTo, self.value)
                 ELSE Thrown(started, failTo, Error(fault, 1))]

\* init(), startProfiling() included; the chain goes to okTo or to failTo.
init(h, okTo, failTo) ==
    LET self == Logged(handler[h], <<Call("init")>>) IN
    \E enabled \in Decisions(self) : \E fault \in InitFaults(self, enabled) :
      IF fault = "shouldProfile"
      THEN /\ handler' = [handler EXCEPT ![h] =
                 Thrown(Logged(self, <<Call("shouldProfile")>>), failTo,
                        Error("shouldProfile", 1))]
           /\ UNCHANGED <<profilePercentage, profiler, zlib>>
      ELSE
        /\ profilePercentage' = increment(profilePercentage, enabled)
        /\ profiler' = (profiler \/ (enabled /\ fault # "require"))
        /\ zlib' = (zlib \/ (enabled /\ fault # "require"))
        /\ LET asked == Logged(self,
                           <<Event("shouldProfile", Undefined, Bool(enabled))>>)
               decided_ == [asked EXCEPT !.profilingEnabled = ToFlag(enabled)]
               started == IF enabled /\ fault # "require"
                          THEN Logged(decided_, <<Call("startProfiling")>>)
                          ELSE decided_
               flagged == IF self.options.waitForEventLoop = FALSE
                          THEN [started EXCEPT
                                  !.callbackWaitsForEmptyEventLoop = FALSE]
                          ELSE started
           IN handler' = [handler EXCEPT ![h] =
                 IF fault = "none" THEN Moved(flagged, okTo, self.value)
                 ELSE Thrown(started, failTo, Error(fault, 1))]

\* Mutant: the chain does not wait for the promise the processor returned.
process_NoWait(h, okTo, pendingTo, failTo) ==
    LET self == Logged(handler[h], <<Call("process")>>) IN
    \/ \E r \in 1..NumResults :
          handler' = [handler EXCEPT ![h] = Resolved(self, okTo, Result(r))]
    \/ handler' = [handler EXCEPT ![h] =
          Moved(Logged(self, <<Call("pending")>>), okTo, self.value)]
    \/ handler' = [handler EXCEPT ![h] = Thrown(self, failTo, Error("process", 1))]

\* process(): the processor returns a value, returns a promise, or throws.
process(h, okTo, pendingTo, failTo) ==
    LET self == Logged(handler[h], <<Call("process")>>) IN
    \/ \E r \in 1..NumResults :
          handler' = [handler EXCEPT ![h] = Resolved(self, okTo, Result(r))]
    \/ handler' = [handler EXCEPT ![h] =
          Moved(Logged(self, <<Call("pending")>>), pendingTo, self.value)]
    \/ handler' = [handler EXCEPT ![h] = Thrown(self, failTo, Error("process", 1))]

\* The promise the processor returned settles.
settle(h, okTo, failTo) ==
    LET self == handler[h] IN
    \/ \E r \in 1..NumResults :
          handler' = [handler EXCEPT ![h] = Resolved(self, okTo, Result(r))]
    \/ handler' = [handler EXCEPT ![h] = Thrown(self, failTo, Error("process", 1))]

\* What can go wrong in stopProfiling().
StopFaults(self) ==
    IF ~Truthy(self.profilingEnabled) \/ ~profiler THEN {"none"}
    ELSE {"none", "stop", "delete"} \cup (IF zlib THEN {"encode"} ELSE {})

\* Mutant: stopProfiling() does not look at profilingEnabled.
cleanup_Unguarded(h, okTo, failTo) ==
    LET self == Logged(handler[h], <<Call("cleanup")>>)
        k == Count(self.log, "cleanup")
    IN
    \E fault \in StopFaults(self) :
      IF ~profiler
      THEN handler' = [handler EXCEPT ![h] = Moved(self, okTo, self.value)]
      ELSE
        LET stopped == Logged(self, <<Call("stopProfiling")>>)
            deflated == IF zlib THEN Logged(stopped, <<Call("deflateSync")>>)
                        ELSE stopped
            encoded == IF zlib THEN [deflated EXCEPT !.profile = "base64"]
                       ELSE deflated
            deleted == Logged(encoded, <<Call("delete")>>)
        IN handler' = [handler EXCEPT ![h] =
              CASE fault = "none" -> Moved(deleted, okTo, self.value)
                [] fault = "stop" -> Thrown(stopped, failTo, Error("stop", k))
                [] fault = "encode" -> Thrown(deflated, failTo, Error("encode", k))
                [] fault = "delete" -> Thrown(deleted, failTo, Error("delete", k))]

\* cleanup(), that is stopProfiling().
cleanup(h, okTo, failTo) ==
    LET self == Logged(handler[h], <<Call("cleanup")>>)
        k == Count(self.log, "cleanup")
    IN
    \E fault \in StopFaults(self) :
      IF ~Truthy(self.profilingEnabled) \/ ~profiler
      THEN handler' = [handler EXCEPT ![h] = Moved(self, okTo, self.value)]
      ELSE
        LET stopped == Logged(self, <<Call("stopProfiling")>>)
            deflated == IF zlib THEN Logged(stopped, <<Call("deflateSync")>>)
                        ELSE stopped
            encoded == IF zlib THEN [deflated EXCEPT !.profile = "base64"]
                       ELSE deflated
            deleted == Logged(encoded, <<Call("delete")>>)
        IN handler' = [handler EXCEPT ![h] =
              CASE fault = "none" -> Moved(deleted, okTo, self.value)
                [] fault = "stop" -> Thrown(stopped, failTo, Error("stop", k))
                [] fault = "encode" -> Thrown(deflated, failTo, Error("encode", k))
                [] fault = "delete" -> Thrown(deleted, failTo, Error("delete", k))]

\* this.callback(error, response): the platform callback returns or throws.
Invoked(self, err, res, threw) ==
    [self EXCEPT !.calls = Append(self.calls,
        [err |-> err, res |-> res, threw |-> threw])]

\* respond(error, response), which proxies the callback.
respond(h, err, res, okTo, failTo) ==
    LET self == Logged(handler[h], <<Event("respond", err, res)>>)
        k == Len(self.calls) + 1
    IN
    \/ handler' = [handler EXCEPT ![h] =
          Moved(Invoked(self, err, res, FALSE), okTo, self.value)]
    \/ handler' = [handler EXCEPT ![h] =
          Thrown(Invoked(self, err, res, TRUE), failTo, Error("callback", k))]

\* The last catch of invoke(): this.callback(err).
fallback(h, err, okTo, failTo) ==
    LET self == Logged(handler[h], <<Event("fallback", err, Undefined)>>)
        k == Len(self.calls) + 1
    IN
    \/ handler' = [handler EXCEPT ![h] =
          Moved(Invoked(self, err, Undefined, FALSE), okTo, self.value)]
    \/ handler' = [handler EXCEPT ![h] =
          Thrown(Invoked(self, err, Undefined, TRUE), failTo, Error("callback", k))]

Env == <<isColdStart, coldStartPercentage, createOptions, lastConstruct,
        constructed>>
Static == <<profilePercentage, profiler, zlib, decided>>

(***************************************************************************)
(* The promise chain of invoke(), one action per callback of the chain.    *)
(***************************************************************************)
\* .then(() => this.init())
ThenInit(h) ==
    /\ handler[h].pc = "init"
    /\ init(h, "process", "catch")
    /\ decided' = IF handler'[h].profilingEnabled = "undefined" THEN decided
                  ELSE [ran |-> decided.ran + 1,
                        enabled |-> decided.enabled +
                            (IF Truthy(handler'[h].profilingEnabled) THEN 1 ELSE 0)]
    /\ UNCHANGED Env

\* .then(() => this.process())
ThenProcess(h) ==
    /\ handler[h].pc = "process"
    /\ process(h, "cleanup", "pending", "catch")
    /\ UNCHANGED <<Env, Static>>

\* the chain waits for the promise process() returned
Settle(h) ==
    /\ handler[h].pc = "pending"
    /\ settle(h, "cleanup", "catch")
    /\ UNCHANGED <<Env, Static>>

\* .then(res => Promise.resolve().then(() => this.cleanup())
ThenCleanup(h) ==
    /\ handler[h].pc = "cleanup"
    /\ cleanup(h, "respond", "catch")
    /\ UNCHANGED <<Env, Static>>

\* Mutant: the success path responds without the result.
ThenRespond_NoResult(h) ==
    /\ handler[h].pc = "respond"
    /\ respond(h, Null, Undefined, "resolved", "catch")
    /\ UNCHANGED <<Env, Static>>

\* .then(() => this.respond(null, res)))
ThenRespond(h) ==
    /\ handler[h].pc = "respond"
    /\ respond(h, Null, handler[h].value, "resolved", "catch")
    /\ UNCHANGED <<Env, Static>>

\* Mutant: the recovery branch responds without cleaning up first.
CatchCleanup_Skipped(h) ==
    /\ handler[h].pc = "catch"
    /\ respond(h, handler[h].value, Undefined, "resolved", "catchRespondAgain")
    /\ UNCHANGED <<Env, Static>>

\* Mutant: a failing cleanup of the recovery branch is caught by nothing.
CatchCleanup_Unhandled(h) ==
    /\ handler[h].pc = "catch"
    /\ cleanup(h, "catchRespond", "rejected")
    /\ UNCHANGED <<Env, Static>>

\* Mutant: a failing cleanup of the recovery branch goes to the raw callback.
CatchCleanup_ToFallback(h) ==
    /\ handler[h].pc = "catch"
    /\ cleanup(h, "catchRespond", "catchCallback")
    /\ UNCHANGED <<Env, Static>>

\* .catch(error => Promise.resolve().then(() => this.cleanup())
CatchCleanup(h) ==
    /\ handler[h].pc = "catch"
    /\ cleanup(h, "catchRespond", "catchRespondAgain")
    /\ UNCHANGED <<Env, Static>>

\* Mutant: the chain goes on to the retry after a delivery that succeeded.
CatchRespond_Continues(h) ==
    /\ handler[h].pc = "catchRespond"
    /\ respond(h, handler[h].value, Undefined, "catchRespondAgain",
               "catchRespondAgain")
    /\ UNCHANGED <<Env, Static>>

\* Mutant: a failed respond(error) goes to the raw callback at once.
CatchRespond_NoRetry(h) ==
    /\ handler[h].pc = "catchRespond"
    /\ respond(h, handler[h].value, Undefined, "resolved", "catchCallback")
    /\ UNCHANGED <<Env, Static>>

\* Mutant: the error is passed as the response.
CatchRespond_AsResponse(h) ==
    /\ handler[h].pc = "catchRespond"
    /\ respond(h, Null, handler[h].value, "resolved", "catchRespondAgain")
    /\ UNCHANGED <<Env, Static>>

\* .then(() => this.respond(error))
CatchRespond(h) ==
    /\ handler[h].pc = "catchRespond"
    /\ respond(h, handler[h].value, Undefined, "resolved", "catchRespondAgain")
    /\ UNCHANGED <<Env, Static>>

\* Mutant: the chain ends here, without the last catch.
CatchRespondAgain_Last(h) ==
    /\ handler[h].pc = "catchRespondAgain"
    /\ respond(h, handler[h].value, Undefined, "resolved", "rejected")
    /\ UNCHANGED <<Env, Static>>

\* Mutant: the retry passes what the chain carries as the response.
CatchRespondAgain_AsResult(h) ==
    /\ handler[h].pc = "catchRespondAgain"
    /\ respond(h, Null, handler[h].value, "resolved", "catchCallback")
    /\ UNCHANGED <<Env, Static>>

\* .catch(err => this.respond(err))
CatchRespondAgain(h) ==
    /\ handler[h].pc = "catchRespondAgain"
    /\ respond(h, handler[h].value, Undefined, "resolved", "catchCallback")
    /\ UNCHANGED <<Env, Static>>

\* Mutant: the raw callback is invoked without the error.
CatchCallback_NoError(h) ==
    /\ handler[h].pc = "catchCallback"
    /\ fallback(h, Undefined, "resolved", "rejected")
    /\ UNCHANGED <<Env, Static>>

\* .catch(err => this.callback(err)));
CatchCallback(h) ==
    /\ handler[h].pc = "catchCallback"
    /\ fallback(h, handler[h].value, "resolved", "rejected")
    /\ UNCHANGED <<Env, Static>>

Next ==
    \E h \in DOMAIN handler :
        \/ Construct(h)
        \/ invoke(h)
        \/ ThenInit(h)
        \/ ThenProcess(h)
        \/ Settle(h)
        \/ ThenCleanup(h)
        \/ ThenRespond(h)
        \/ CatchCleanup(h)
        \/ CatchRespond(h)
        \/ CatchRespondAgain(h)
        \/ CatchCallback(h)

Spec == Init /\ [][Next]_vars

\* The event loop runs every callback of the chain that is ready, and the
\* promise the processor returned is assumed to settle.
Fairness ==
    \A h \in Slots :
        /\ WF_vars(ThenInit(h))
        /\ WF_vars(ThenProcess(h))
        /\ WF_vars(Settle(h))
        /\ WF_vars(ThenCleanup(h))
        /\ WF_vars(ThenRespond(h))
        /\ WF_vars(CatchCleanup(h))
        /\ WF_vars(CatchRespond(h))
        /\ WF_vars(CatchRespondAgain(h))
        /\ WF_vars(CatchCallback(h))

FairSpec == Spec /\ Fairness

InterleavedSpec == InterleavedInit /\ [][Next]_vars

PercentageSpec == PercentageInit /\ [][Next]_vars

(***************************************************************************)
(* Reading an invocation's log.                                            *)
(***************************************************************************)
StageOps == {"init", "process", "cleanup", "respond", "fallback"}
Stages == {"init", "process", "cleanup"}
Deliveries == {"respond", "fallback"}

At(log, ops) == {i \in DOMAIN log : log[i].op \in ops}
Last(S) == CHOOSE x \in S : \A y \in S : y <= x
First(S) == CHOOSE x \in S : \A y \in S : x <= y

\* The stage methods called, in order.
StageCalls(log) ==
    LET s == SelectSeq(log, LAMBDA e : e.op \in StageOps)
    IN [i \in 1..Len(s) |-> s[i].op]

\* The stage (or delivery) whose call threw the error logged at i.
StageOf(log, i) == log[Last({j \in At(log, StageOps) : j < i})].op

\* The throws of init, process and cleanup; the throws of respond.
StageThrows(log) == {i \in At(log, {"throw"}) : StageOf(log, i) \in Stages}
RespondThrows(log) == {i \in At(log, {"throw"}) : StageOf(log, i) = "respond"}

RawCalls(self) == Count(self.log, "fallback")
Done(self) == self.pc \in Terminal

(***************************************************************************)
(* The invocation lifecycle.                                               *)
(***************************************************************************)
HappyPath == <<"init", "process", "cleanup", "respond">>

IsPrefix(s, t) == Len(s) <= Len(t) /\ \A i \in DOMAIN s : s[i] = t[i]

NoThrow(self) == At(self.log, {"throw"}) = {}

\* The value the processor returned or resolved to.
ProcessResult(self) == self.log[First(At(self.log, {"resolve"}))].res

\* C1: when init, the processor (returning R at once or through a promise),
\* cleanup and respond all succeed, invoke() runs init, process, cleanup and
\* respond once each in that order, the callback is invoked exactly once, with
\* (null, R), and the raw callback fallback is not used.
C1_HappyPathDeliversResultOnce ==
    \A h \in Slots :
        LET self == handler[h] IN
        NoThrow(self) =>
            /\ IsPrefix(StageCalls(self.log), HappyPath)
            /\ RawCalls(self) = 0
            /\ self.pc # "rejected"
            /\ IF Done(self)
               THEN /\ StageCalls(self.log) = HappyPath
                    /\ self.calls = <<[err |-> Null, res |-> ProcessResult(self),
                                       threw |-> FALSE]>>
               ELSE self.calls = <<>>

C1_Witness ==
    \E h \in Slots :
        LET self == handler[h] IN
        /\ Done(self) /\ NoThrow(self)
        /\ At(self.log, {"pending"}) # {}
        /\ self.calls = <<[err |-> Null, res |-> Result(2), threw |-> FALSE]>>

\* C2: on every path of invoke(), cleanup has run at least once before the
\* first delivery attempt (respond or the raw callback) of the invocation.
C2_CleanupBeforeDelivery ==
    \A h \in Slots :
        LET log == handler[h].log IN
        \A i \in At(log, Deliveries) : \E j \in At(log, {"cleanup"}) : j < i

\* Delivery after a failed init, a failed processor and a failed cleanup.
C2_Witness ==
    \E h \in Slots :
        LET log == handler[h].log IN
        /\ At(log, {"respond"}) # {}
        /\ \E i \in StageThrows(log) :
              /\ StageOf(log, i) = "init"
              /\ i < First(At(log, {"respond"}))
        /\ \E i \in StageThrows(log) : StageOf(log, i) = "cleanup"

\* C3: within one invocation cleanup() is called at most once by invoke().
C3_CleanupAtMostOnce ==
    \A h \in Slots : Count(handler[h].log, "cleanup") <= 1

\* The invocation's only throw so far is the processor's (a throw or a rejection).
OnlyProcessFailed(self) ==
    /\ Cardinality(At(self.log, {"throw"})) = 1
    /\ \A i \in At(self.log, {"throw"}) : StageOf(self.log, i) = "process"

\* C4: if the processor fails with E (it throws or its promise rejects) and
\* cleanup and delivery succeed, cleanup runs after the failure, the callback is
\* invoked exactly once, with (E, undefined), and respond(null, result) is
\* never called.
C4_ProcessFailureDelivered ==
    \A h \in Slots :
        LET self == handler[h]
            E == self.log[First(At(self.log, {"throw"}))].err
        IN
        OnlyProcessFailed(self) =>
            /\ \A j \in At(self.log, {"respond"}) : self.log[j].err # Null
            /\ Done(self) =>
                  /\ self.pc = "resolved"
                  /\ \E j \in At(self.log, {"cleanup"}) :
                        j > First(At(self.log, {"throw"}))
                  /\ self.calls = <<[err |-> E, res |-> Undefined, threw |-> FALSE]>>

C4_Witness ==
    \E h \in Slots :
        LET self == handler[h] IN
        /\ Done(self) /\ OnlyProcessFailed(self)
        /\ At(self.log, {"pending"}) # {}
        /\ self.profile = "base64"
        /\ Len(self.calls) = 1

\* C5: whenever init, process or cleanup fails with E during an invocation,
\* some respond attempt of that invocation is made with E as its error
\* argument and no result.
C5_EveryStageFailureDelivered ==
    \A h \in Slots :
        LET self == handler[h] IN
        Done(self) =>
            \A i \in StageThrows(self.log) :
                \E j \in At(self.log, {"respond"}) :
                    /\ self.log[j].err = self.log[i].err
                    /\ self.log[j].res = Undefined

\* C6: if the processor succeeds with R, the first delivery attempt
\* respond(null, R) fails with D and the next attempt succeeds, then delivery is
\* attempted exactly twice, the second attempt carries D and no result, the raw
\* fallback is not used and the promise of invoke() resolves.
C6_RetryCarriesDeliveryError ==
    \A h \in Slots :
        LET self == handler[h] IN
        (/\ Done(self)
         /\ At(self.log, {"resolve"}) # {}
         /\ Len(self.calls) >= 2
         /\ self.calls[1] = [err |-> Null, res |-> ProcessResult(self), threw |-> TRUE]
         /\ ~self.calls[2].threw)
        =>
            /\ Len(self.calls) = 2
            /\ Count(self.log, "respond") = 2
            /\ self.calls[2].err = Error("callback", 1)
            /\ self.calls[2].res = Undefined
            /\ RawCalls(self) = 0
            /\ self.pc = "resolved"

\* Every respond attempt made so far has failed.
AllRespondsFailed(log) ==
    \A j \in At(log, {"respond"}) : j < Len(log) /\ log[j + 1].op = "throw"

\* C7: if every respond attempt of an invocation fails, the raw callback is
\* invoked directly exactly once, with the error of the last failed respond
\* attempt as its only argument, and no respond attempt follows it.
C7_FallbackGetsLastError ==
    \A h \in Slots :
        LET self == handler[h]
            log == self.log
        IN
        /\ \A i \in At(log, {"fallback"}) :
              /\ Count(log, "fallback") = 1
              /\ \A j \in At(log, {"respond"}) : j < i
              /\ AllRespondsFailed(log)
              /\ RespondThrows(log) # {}
              /\ Last(RespondThrows(log)) = i - 1
              /\ log[i].err = log[i - 1].err
              /\ log[i].res = Undefined
              /\ self.calls[Len(self.calls)].err = log[i - 1].err
              /\ self.calls[Len(self.calls)].res = Undefined
        /\ (Done(self) /\ AllRespondsFailed(log)) => Count(log, "fallback") = 1

C7_Witness ==
    \E h \in Slots :
        LET self == handler[h] IN
        /\ Done(self)
        /\ Count(self.log, "fallback") = 1
        /\ Count(self.log, "respond") = 3
        /\ Len(self.calls) = 4

\* A stage failed, or the result's delivery did not come first.
FailedBeforeDelivery(log) ==
    \E i \in At(log, {"throw"}) : \A j \in At(log, {"respond"}) : i < j

\* The cleanup of the recovery branch failed.
RecoveryCleanupFailed(log) ==
    \E i \in StageThrows(log) :
        /\ StageOf(log, i) = "cleanup"
        /\ \E t \in At(log, {"throw"}) : t < Last({c \in At(log, {"cleanup"}) : c < i})

C9_NeverRejectsNeverThrows ==
    /\ \A h \in Slots : handler[h].pc # "rejected"
    /\ ~lastConstruct.threw

\* C9, amended: the promise of invoke() resolves whatever stage or delivery
\* failed, and is rejected only when the raw callback of the last catch itself
\* throws, with the error it threw; the callable throws synchronously exactly
\* when the processor is not a function.
C9_RejectsOnlyWhenFallbackThrows ==
    /\ \A h \in Slots :
          LET self == handler[h]
              log == self.log
          IN
          /\ self.pc = "rejected" <=>
                /\ log # <<>>
                /\ log[Len(log)].op = "throw"
                /\ StageOf(log, Len(log)) = "fallback"
          /\ self.pc = "rejected" =>
                /\ self.value = log[Len(log)].err
                /\ self.calls[Len(self.calls)].threw
    /\ lastConstruct.threw <=> lastConstruct.processor \notin {"none", "function"}

C9_Witness ==
    /\ lastConstruct.threw
    /\ \E h \in Slots :
          /\ handler[h].pc = "rejected"
          /\ At(handler[h].log, {"resolve"}) # {}

\* C10: if the processor settles and every stage call returns, every invocation
\* reaches the terminal state, and there the callback has been invoked at
\* least once, by a respond attempt or by the raw fallback.
C10_TerminatesWithCallback ==
    \A h \in Slots :
        /\ [](Done(handler[h]) => Len(handler[h].calls) >= 1)
        /\ (handler[h].pc = "init") ~> Done(handler[h])

C10_Witness ==
    \E h \in Slots :
        LET self == handler[h] IN
        /\ self.pc = "resolved"
        /\ RecoveryCleanupFailed(self.log)
        /\ Count(self.log, "respond") = 1
        /\ RawCalls(self) = 1

(***************************************************************************)
(* Cold starts and the trackers.                                           *)
(***************************************************************************)
Constructed(self) == self.pc # "none"

\* C11: the K-th lifecycle constructed in an environment has
\* isColdStart = (K = 1); the module-level flag is true until the first
\* construction and false ever after.
C11_OnlyFirstIsCold ==
    /\ isColdStart = (constructed = 0)
    /\ \A h \in Slots :
          Constructed(handler[h]) =>
              handler[h].isColdStart = (handler[h].ordinal = 1)

C11_Witness ==
    /\ constructed = 3
    /\ \E h \in Slots :
          /\ handler[h].pc = "created"
          /\ handler[h].ordinal = 3
          /\ ~handler[h].isColdStart

InRange(p) == 0 <= p.subset /\ p.subset <= p.total

\* What increment(value) makes of a tracker.
Recorded(p, value) ==
    [total |-> p.total + 1, subset |-> p.subset + (IF value THEN 1 ELSE 0)]

\* In this step the init of h decided whether to profile.
Decides(h) ==
    /\ handler[h].pc = "init"
    /\ handler'[h].profilingEnabled # "undefined"

C13_ConstructionsCounted ==
    /\ [](/\ coldStartPercentage =
                [total |-> constructed,
                 subset |-> IF constructed >= 1 THEN 1 ELSE 0]
          /\ \A h \in Slots :
                Constructed(handler[h]) =>
                    handler[h].totalInvocations = handler[h].ordinal)
    /\ [][constructed' # constructed => profilePercentage' = profilePercentage]_vars

C13_Witness ==
    /\ constructed = 2
    /\ coldStartPercentage = [total |-> 2, subset |-> 1]
    /\ profilePercentage = [total |-> 1, subset |-> 1]
    /\ \E h \in Slots :
          handler[h].pc = "created" /\ handler[h].totalInvocations = 2

\* What the configured shouldProfile returned to the init of this instance.
Returned(self) == self.log[First(At(self.log, {"shouldProfile"}))].res

DecidedByDefault(self) ==
    /\ self.options.shouldProfile = "default"
    /\ self.profilingEnabled # "undefined"

\* C15: in a fresh environment under ONE_COLD_ONE_WARM the default
\* shouldProfile is true for the first and the second instance constructed
\* and false for the third and every later one, and so is init's decision.
C15_OneColdOneWarm ==
    \A h \in Slots :
        LET self == handler[h] IN
        Constructed(self) /\ self.options.profileStrategy = "ONE_COLD_ONE_WARM" =>
            /\ shouldProfile(self) = (self.ordinal <= 2)
            /\ DecidedByDefault(self) =>
                  self.profilingEnabled = ToFlag(self.ordinal <= 2)

\* The third instance was refused after the first two were profiled.
C15_Witness ==
    /\ profilePercentage = [total |-> 3, subset |-> 2]
    /\ \E h \in Slots :
          LET self == handler[h] IN
          /\ self.options.profileStrategy = "ONE_COLD_ONE_WARM"
          /\ self.ordinal = 3
          /\ self.profilingEnabled = "false"

\* C16: under PERCENTAGE with target p the default shouldProfile is true iff
\* the profiling tracker's percentage before the decision (0 when nothing is
\* recorded) is strictly less than p; with p = 20 from a fresh tracker the
\* first eight decisions are true, false, false, false, false, false, true,
\* false.
C16_PercentageDecisions ==
    [][\A h \in Slots :
         (/\ Decides(h)
          /\ handler[h].options.shouldProfile = "default"
          /\ handler[h].options.profileStrategy = "PERCENTAGE") =>
            LET p == handler[h].options.profilePercentage
                before == profilePercentage
            IN /\ handler'[h].profilingEnabled =
                     ToFlag(IF before.total = 0 THEN 0 < p
                            ELSE before.subset * 100 < p * before.total)
               /\ (p = 20 /\ decided.ran < 8) =>
                     handler'[h].profilingEnabled =
                         ToFlag(decided.ran + 1 \in {1, 7})]_vars

\* The eighth decision of a run with target 20 was false, the seventh true.
C16_Witness ==
    /\ decided = [ran |-> 8, enabled |-> 2]
    /\ \E h \in Slots :
          LET self == handler[h] IN
          /\ DecidedByDefault(self)
          /\ self.options.profileStrategy = "PERCENTAGE"
          /\ self.options.profilePercentage = 20
          /\ self.profilingEnabled = "false"

\* C17: the default shouldProfile is true for every instance under ALWAYS,
\* is the instance's isColdStart under ALL_COLD_STARTS (only the first
\* instance of the environment is profiled), and is false under NEVER, the
\* default options and an unrecognized strategy; init decides accordingly.
C17_StrategyTable ==
    \A h \in Slots :
        LET self == handler[h]
            expected ==
                CASE self.options.profileStrategy = "ALWAYS" -> TRUE
                  [] self.options.profileStrategy = "ALL_COLD_STARTS" ->
                        self.ordinal = 1
                  [] OTHER -> FALSE
        IN (/\ Constructed(self)
            /\ self.options.profileStrategy \in
                  {"ALWAYS", "ALL_COLD_STARTS", "NEVER", "OTHER"}) =>
              /\ shouldProfile(self) = expected
              /\ self.options.profileStrategy = "ALL_COLD_STARTS" =>
                    shouldProfile(self) = self.isColdStart
              /\ self.options = defaultOptions => ~shouldProfile(self)
              /\ DecidedByDefault(self) =>
                    self.profilingEnabled = ToFlag(expected)

\* A warm instance under ALL_COLD_STARTS was refused after the cold one.
C17_Witness ==
    /\ profilePercentage = [total |-> 2, subset |-> 1]
    /\ \E h \in Slots :
          LET self == handler[h] IN
          /\ self.options.profileStrategy = "ALL_COLD_STARTS"
          /\ DecidedByDefault(self)
          /\ ~self.isColdStart
          /\ self.profilingEnabled = "false"

\* C18: constructing an instance with a processor that is not a function
\* throws at once: no instance comes to exist, nothing is counted, no stage
\* runs and the callback is not invoked; an instance that exists was given a
\* function.
C18_ConstructorThrowsAtOnce ==
    /\ [](lastConstruct.threw = (lastConstruct.processor = "undefined"))
    /\ [][/\ (lastConstruct' # lastConstruct /\ lastConstruct'.processor # "function")
               => UNCHANGED <<handler, constructed, decided, isColdStart,
                              coldStartPercentage, profilePercentage>>
          /\ constructed' # constructed => lastConstruct'.processor = "function"]_vars

\* A construction without a processor threw after an invocation had finished.
C18_Witness ==
    /\ lastConstruct = [processor |-> "undefined", threw |-> TRUE]
    /\ constructed = 1
    /\ \E h \in Slots : Done(handler[h]) /\ Len(handler[h].calls) = 1

\* The error sources of the profiler, of zlib and of the profile object.
ProfilingErrors == {"require", "startProfiling", "stop", "encode", "delete"}

\* The calls of profiler.stopProfiling that returned a profile object.
Stopped(log) ==
    {i \in At(log, {"stopProfiling"}) :
        ~(i < Len(log) /\ log[i + 1].op = "throw" /\ log[i + 1].err.src = "stop")}

\* C19: in the cleanup of a profiled invocation the profile object that
\* profiler.stopProfiling returned is released (its delete is called) on
\* every path, a failing serialization, compression or encoding included.
C19_ProfileAlwaysReleased ==
    \A h \in Slots :
        LET log == handler[h].log IN
        \A i \in Stopped(log) :
            \E j \in At(log, {"delete"}) :
                /\ i < j
                /\ \A k \in At(log, {"cleanup"}) : ~(i < k /\ k < j)

\* C20: a profiling failure (starting the profiler in init; stopping,
\* serializing, compressing or encoding the profile in cleanup) never changes
\* the outcome: the callback still receives (null, R) when the processor
\* succeeded with R and (E, undefined) when it failed with E, and a profiling
\* error is never the error delivered.
C20_ProfilingNeverChangesOutcome ==
    \A h \in Slots :
        LET self == handler[h]
            throws == {self.log[i].err : i \in At(self.log, {"throw"})}
        IN /\ \A i \in DOMAIN self.calls :
                 self.calls[i].err.src \notin ProfilingErrors
           /\ (/\ Done(self)
               /\ \A e \in throws : e.src \in ProfilingErrors
               /\ At(self.log, {"resolve"}) # {}) =>
                 \E i \in DOMAIN self.calls :
                     /\ self.calls[i].err = Null
                     /\ self.calls[i].res = ProcessResult(self)
           /\ (/\ Done(self)
               /\ \A e \in throws : e.src \in ProfilingErrors \cup {"process"}) =>
                 \A e \in throws :
                     e.src = "process" =>
                         \E i \in DOMAIN self.calls :
                             /\ self.calls[i].err = e
                             /\ self.calls[i].res = Undefined

\* The calls to the profiler, to the compressor and to the profile object.
ProfilerOps == {"startProfiling", "stopProfiling", "deflateSync", "delete"}

\* C21: when profiling is not enabled for an invocation, cleanup (that is
\* stopProfiling), however many times it runs, calls neither the profiler
\* nor the compressor and leaves profile undefined; in every state profile
\* is defined only if profilingEnabled is true for that invocation.
C21_DisabledCleanupDoesNothing ==
    \A h \in Slots :
        LET self == handler[h] IN
        /\ ~Truthy(self.profilingEnabled) =>
              /\ At(self.log, ProfilerOps) = {}
              /\ self.profile = "undefined"
        /\ self.profile # "undefined" => Truthy(self.profilingEnabled)

\* cleanup ran twice without profiling although the profiler is loaded.
C21_Witness ==
    /\ profiler /\ zlib
    /\ \E h \in Slots :
          LET self == handler[h] IN
          /\ self.profilingEnabled = "false"
          /\ Count(self.log, "cleanup") = 2
          /\ Done(self)

Settlements == {"resolve", "throw"}

\* C24: within one invocation no stage overlaps another: when the processor
\* returns a promise, cleanup does not start and nothing is delivered until
\* the promise has settled; while it is pending no later stage has run.
C24_WaitsForTheProcessor ==
    \A h \in Slots :
        LET self == handler[h]
            log == self.log
        IN /\ \A i \in At(log, {"pending"}) :
                 /\ i < Len(log) => log[i + 1].op \in Settlements
                 /\ \A j \in At(log, {"cleanup"} \cup Deliveries) :
                       i < j => \E k \in At(log, Settlements) : i < k /\ k < j
           /\ self.pc = "pending" =>
                 /\ log[Len(log)].op = "pending"
                 /\ At(log, {"cleanup"} \cup Deliveries) = {}
           /\ \A j \in At(log, {"cleanup"}) :
                 \E i \in At(log, {"process"} \cup Settlements) : i < j

\* The processor's promise resolved, then cleanup and respond ran.
C24_Witness ==
    \E h \in Slots :
        LET self == handler[h] IN
        /\ Done(self)
        /\ At(self.log, {"pending"}) # {}
        /\ At(self.log, {"resolve"}) # {}
        /\ StageCalls(self.log) = HappyPath

\* init ran to its end with profiling enabled: the session was started.
SessionStarted(self) ==
    /\ Truthy(self.profilingEnabled)
    /\ \A i \in At(self.log, {"throw"}) : StageOf(self.log, i) # "init"

\* C25: for an invocation with profiling enabled the profiling session is
\* started exactly once, in init, and stopped exactly once, after the
\* processor has settled and before the first delivery attempt, on every
\* path, delivery retries included.
C25_SessionStoppedOnce ==
    \A h \in Slots :
        LET self == handler[h]
            log == self.log
        IN (Done(self) /\ SessionStarted(self)) =>
              /\ Count(log, "startProfiling") = 1
              /\ Count(log, "stopProfiling") = 1
              /\ \A i \in At(log, {"stopProfiling"}) :
                    /\ \A j \in At(log, {"startProfiling", "process", "pending"}) : j < i
                    /\ \A j \in At(log, Deliveries) : i < j

\* C26: for an invocation with waitForEventLoop = false the context's
\* callbackWaitsForEmptyEventLoop is already false at every delivery attempt
\* (respond or the raw callback), on every path, a failing init included.
C26_FlagClearedBeforeDelivery ==
    \A h \in Slots :
        LET self == handler[h] IN
        (~self.options.waitForEventLoop /\ At(self.log, Deliveries) # {}) =>
            self.callbackWaitsForEmptyEventLoop = FALSE

\* The delivery logged at i went through: the callback returned.
Delivered(log, i) == ~(i < Len(log) /\ log[i + 1].op = "throw")

\* A respond went through, or the raw callback was invoked.
Terminated(self) ==
    \E i \in At(self.log, Deliveries) :
        Delivered(self.log, i) \/ self.log[i].op = "fallback"

\* C27: once an invocation is at its end (a delivery attempt went through,
\* or the raw callback was invoked) no further stage runs and neither
\* respond nor the callback is called again for it.
C27_NothingAfterTheEnd ==
    /\ [](\A h \in Slots :
            LET self == handler[h] IN
            /\ Constructed(self) => (Done(self) <=> Terminated(self))
            /\ \A i \in At(self.log, Deliveries) :
                  (Delivered(self.log, i) \/ self.log[i].op = "fallback") =>
                      /\ \A j \in At(self.log, StageOps) : j <= i
                      /\ Len(self.calls) =
                            Cardinality({j \in At(self.log, Deliveries) : j <= i}))
    /\ [][\A h \in Slots :
            Done(handler[h]) =>
                \/ handler'[h] = handler[h]
                \/ handler'[h].pc = "created" /\ handler'[h].log = <<>>]_vars

\* The second respond went through after the first one failed.
C27_Witness ==
    \E h \in Slots :
        LET self == handler[h] IN
        /\ Done(self)
        /\ Count(self.log, "respond") = 2
        /\ Len(self.calls) = 2
        /\ ~self.calls[2].threw

\* The instances that exist, over or not.
Live == {h \in DOMAIN handler : Constructed(handler[h])}

\* C28: when invocations of one environment interleave on the event loop
\* (construction and each stage being one step), exactly one instance
\* observes isColdStart = true, both trackers keep subset <= total and lose
\* no update (the cold-start total is the number of constructions, the
\* profiling total the number of inits that decided), and each PERCENTAGE
\* decision is recorded in the step that takes it, before another
\* invocation's decision reads the tracker.
C28_InterleavedBookkeeping ==
    /\ [](/\ InRange(coldStartPercentage) /\ InRange(profilePercentage)
          /\ coldStartPercentage =
                [total |-> constructed, subset |-> IF constructed >= 1 THEN 1 ELSE 0]
          /\ profilePercentage = [total |-> decided.ran, subset |-> decided.enabled]
          /\ \A h \in Live : handler[h].isColdStart = (handler[h].ordinal = 1)
          /\ \A g, h \in Live : handler[g].ordinal = handler[h].ordinal => g = h)
    /\ [][\A h \in DOMAIN handler :
            Decides(h) =>
              /\ handler'[h].profilingEnabled =
                    ToFlag(IF profilePercentage.total = 0 THEN TRUE
                           ELSE profilePercentage.subset * 100
                                   < 20 * profilePercentage.total)
              /\ handler'[h].profilingEnabled = ToFlag(decided.ran + 1 \in {1, 7})
              /\ profilePercentage' =
                    Recorded(profilePercentage,
                             Truthy(handler'[h].profilingEnabled))]_vars

\* The second instance decided first, while the cold one was still running,
\* and a third was constructed in the cold one's place.
C28_Witness ==
    /\ DOMAIN handler = Interleaved
    /\ constructed = 3
    /\ handler[1].ordinal = 3
    /\ handler[1].profilingEnabled = "false"
    /\ handler[2].ordinal = 2
    /\ handler[2].profilingEnabled = "true"
    /\ handler[2].pc = "pending"

\* The step constructs the instance of h; the step is the init of h.
Constructs(h) == handler[h].pc # "created" /\ handler'[h].pc = "created"
Inits(h) == handler[h].pc = "init" /\ handler'[h].pc # "init"

C30_SelfCorrectionBound ==
    LET p == createOptions.profilePercentage
        t == profilePercentage
    IN (/\ createOptions.shouldProfile = "default"
        /\ createOptions.profileStrategy = "PERCENTAGE"
        /\ t.total >= 1) =>
          /\ p * (t.total - 1) <= 100 * t.subset
          /\ 100 * t.subset < p * t.total + 100

\* Eight decisions with target 33: three invocations were profiled.
C30_Witness ==
    /\ createOptions.profileStrategy = "PERCENTAGE"
    /\ createOptions.profilePercentage = 33
    /\ profilePercentage = [total |-> 8, subset |-> 3]

\* The throws of init in this invocation.
InitThrows(log) == {i \in At(log, {"throw"}) : StageOf(log, i) = "init"}

\* C31: if init fails the processor is never invoked for that invocation:
\* the invocation goes to cleanup and then to the delivery of init's error.
C31_InitFailureSkipsTheProcessor ==
    \A h \in Slots :
        LET self == handler[h]
            log == self.log
        IN \A i \in InitThrows(log) :
              /\ At(log, {"process"}) = {}
              /\ \A j \in At(log, Deliveries) :
                    /\ \E k \in At(log, {"cleanup"}) : i < k /\ k < j
                    /\ j = First(At(log, Deliveries)) => log[j].err = log[i].err
              /\ Done(self) => At(log, Deliveries) # {}

\* The step is a construction that threw.
ConstructionFailed == lastConstruct' # lastConstruct /\ lastConstruct'.threw

\* C32: a construction that fails for want of a processor leaves the
\* module-level state as it was (the flag is not flipped, neither tracker is
\* incremented), so the next construction that succeeds in a fresh
\* environment still observes isColdStart = true and totalInvocations = 1.
C32_FailedConstructionChangesNothing ==
    /\ [](constructed = 0 =>
             /\ isColdStart
             /\ coldStartPercentage = NewIncrementor
             /\ profilePercentage = NewIncrementor)
    /\ [][/\ ConstructionFailed =>
                UNCHANGED <<isColdStart, coldStartPercentage, profilePercentage,
                            profiler, zlib, constructed, decided, handler>>
          /\ \A h \in Slots :
                (lastConstruct.threw /\ constructed = 0 /\ Constructs(h)) =>
                    /\ handler'[h].isColdStart
                    /\ handler'[h].totalInvocations = 1]_vars

\* A construction threw in a fresh environment, which is still fresh.
C32_Witness ==
    /\ lastConstruct = [processor |-> "undefined", threw |-> TRUE]
    /\ constructed = 0
    /\ isColdStart
    /\ coldStartPercentage = NewIncrementor

\* C33: per invocation, on every path, respond is attempted at least once
\* and at most three times, the raw callback is invoked at most once, and
\* only after a respond attempt of that invocation has failed.
C33_DeliveryAttemptsBounded ==
    \A h \in Slots :
        LET self == handler[h]
            log == self.log
        IN /\ Count(log, "respond") <= 3
           /\ Done(self) => Count(log, "respond") >= 1
           /\ Count(log, "fallback") <= 1
           /\ \A i \in At(log, {"fallback"}) :
                 \E j \in At(log, {"respond"}) : j < i /\ ~Delivered(log, j)

\* Three respond attempts failed, then the raw callback was invoked.
C33_Witness ==
    \E h \in Slots :
        LET self == handler[h] IN
        /\ Done(self)
        /\ Count(self.log, "respond") = 3
        /\ Count(self.log, "fallback") = 1

\* C34: within one invocation the result is offered for delivery at most
\* once and only as the first delivery attempt: every attempt after a failed
\* stage or a failed attempt carries an error and no result, so (null, R) is
\* never delivered after an error has been delivered.
C34_ResultOnlyFirst ==
    \A h \in Slots :
        LET self == handler[h]
            log == self.log
        IN \A j \in At(log, Deliveries) :
              IF log[j].err = Null
              THEN /\ j = First(At(log, Deliveries))
                   /\ At(log, {"throw"}) \cap 1..j = {}
                   /\ IsResult(log[j].res)
              ELSE /\ IsError(log[j].err)
                   /\ log[j].res = Undefined
                   /\ \E i \in At(log, {"throw"}) : i < j

\* The result was refused by the callback and the error delivered instead.
C34_Witness ==
    \E h \in Slots :
        LET self == handler[h] IN
        /\ Done(self)
        /\ Len(self.calls) = 2
        /\ self.calls[1].err = Null /\ IsResult(self.calls[1].res)
        /\ self.calls[1].threw
        /\ IsError(self.calls[2].err) /\ self.calls[2].res = Undefined
        /\ ~self.calls[2].threw
====
